---- MODULE Spec2Model ----
(***************************************************************************)
(* Model of the analytics client: the bounded event channel, the           *)
(* background goroutine processEvents with its size / ticker / quit        *)
(* select, and the public operations Track, TrackEvent, TrackBatch, Flush  *)
(* and Close.                                                              *)
(***************************************************************************)
EXTENDS Naturals, Integers, Sequences, FiniteSets, TLC

(* ---- bounds of the model ---- *)
MaxEvents == 3
BufferSize == 2
BatchSize == 2
MaxTrackBatch == 2
MaxWrap == 2
MaxKeyLen == 40
MaxPlainLen == 17
MaxClock == 2

Outcomes == {"ok", "err"}

VARIABLES
  events,       \* c.events: the buffered channel, oldest first
  batch,        \* the local slice batch of processEvents
  quit,         \* c.quit has been closed
  tickPending,  \* ticker.C holds a tick
  tickStale,    \* the tick held by ticker.C fired before the last size flush
  dpc,          \* position of the processEvents goroutine
  sent,         \* log of sendEvents calls made by processEvents
  nextId,       \* identity of the next event to be constructed
  accepted,     \* events the channel send accepted, in order
  dropped,      \* events that took the default branch
  remaining,    \* events the TrackBatch loop in progress has still to offer
  cpc,          \* the Close call that closed c.quit: idle, waiting, returned
  closeRet,     \* the error that Close call returned
  closeSnap,    \* Len(accepted) when close(c.quit) ran
  fpc,          \* Flush caller: idle, polling, retEmpty (returned on an empty poll)
  flushSnap,    \* Len(accepted) when Flush was called
  panicked,     \* an unrecovered panic has ended the process
  spc,          \* TrackSync caller: idle, sending
  syncSent,     \* log of the sendEvents calls made by TrackSync
  errv,         \* an error value (errors.go): its Unwrap chain, outermost first
  call,         \* the last function applied to a value, with input and output
  cin           \* the input of the encryption functions: key, data, client set-up

vars == <<events, batch, quit, tickPending, tickStale, dpc, sent, nextId,
          accepted, dropped, remaining, cpc, closeRet, closeSnap, fpc,
          flushSnap, panicked, spc, syncSent, errv, call, cin>>

prodVars == <<nextId, accepted, dropped, remaining>>
closeVars == <<cpc, closeRet, closeSnap>>
flushVars == <<fpc, flushSnap>>
clientVars == <<events, batch, quit, tickPending, tickStale, dpc, sent, nextId,
                accepted, dropped, remaining, cpc, closeRet, closeSnap, fpc,
                flushSnap, panicked, spc, syncSent>>
tickVars == <<tickPending, tickStale>>
syncVars == <<spc, syncSent>>
pureVars == <<errv, call, cin>>

(* ---- helpers ---- *)
Range(s) == {s[i] : i \in 1..Len(s)}

\* an event is identified by its arrival number; its payload plays no part in
\* the queueing
NewEvent == nextId

DState ==
  IF dpc = "done" THEN "STOPPED"
  ELSE IF dpc \in {"quitSend", "drainLoop", "drainSend", "finalSend"}
       THEN "DRAINING"
       ELSE "RUNNING"

ClientInit ==
  /\ events = <<>>
  /\ batch = <<>>
  /\ quit = FALSE
  /\ tickPending = FALSE
  /\ tickStale = FALSE
  /\ dpc = "select"
  /\ sent = <<>>
  /\ nextId = 1
  /\ accepted = <<>>
  /\ dropped = {}
  /\ remaining = 0
  /\ cpc = "idle"
  /\ closeRet = "none"
  /\ closeSnap = 0
  /\ fpc = "idle"
  /\ flushSnap = 0
  /\ panicked = FALSE
  /\ spc = "idle"
  /\ syncSent = <<>>

Init ==
  /\ ClientInit
  /\ errv = <<>>
  /\ call = [op |-> "none"]
  /\ cin = [kind |-> "none"]

(* ---- producers ---- *)

\* a channel send without the default branch: the caller waits for room
OfferBlocking(e) ==
  /\ Len(events) < BufferSize
  /\ events' = Append(events, e)
  /\ accepted' = Append(accepted, e)
  /\ dropped' = dropped

\* a ring buffer that makes room by evicting the oldest resident event
OfferOverwriteOldest(e) ==
  IF Len(events) < BufferSize
  THEN /\ events' = Append(events, e)
       /\ accepted' = Append(accepted, e)
       /\ dropped' = dropped
  ELSE /\ events' = Append(Tail(events), e)
       /\ accepted' = Append(accepted, e)
       /\ dropped' = dropped \cup {Head(events)}

\* select { case c.events <- event: ; default: drop }
Offer(e) ==
  IF Len(events) < BufferSize
  THEN /\ events' = Append(events, e)
       /\ accepted' = Append(accepted, e)
       /\ dropped' = dropped
  ELSE /\ events' = events
       /\ accepted' = accepted
       /\ dropped' = dropped \cup {e}

Track ==
  /\ ~panicked
  /\ UNCHANGED <<syncVars, pureVars>>
  /\ nextId <= MaxEvents
  /\ Offer(NewEvent)
  /\ nextId' = nextId + 1
  /\ UNCHANGED <<batch, quit, tickVars, dpc, sent, remaining, closeVars,
                 flushVars, panicked>>

TrackEvent ==
  /\ ~panicked
  /\ UNCHANGED <<syncVars, pureVars>>
  /\ nextId <= MaxEvents
  /\ Offer(NewEvent)
  /\ nextId' = nextId + 1
  /\ UNCHANGED <<batch, quit, tickVars, dpc, sent, remaining, closeVars,
                 flushVars, panicked>>

\* TrackBatch is called with n events and its loop offers them one at a time;
\* the call runs the first iteration. Track calls of other goroutines
\* interleave with the loop.
TrackBatchCall(n) ==
  /\ ~panicked
  /\ UNCHANGED <<syncVars, pureVars>>
  /\ remaining = 0
  /\ nextId + n - 1 <= MaxEvents
  /\ Offer(NewEvent)
  /\ nextId' = nextId + 1
  /\ remaining' = n - 1
  /\ UNCHANGED <<batch, quit, tickVars, dpc, sent, closeVars, flushVars,
                 panicked>>

TrackBatchStep ==
  /\ ~panicked
  /\ UNCHANGED <<syncVars, pureVars>>
  /\ remaining > 0
  /\ nextId <= MaxEvents
  /\ Offer(NewEvent)
  /\ nextId' = nextId + 1
  /\ remaining' = remaining - 1
  /\ UNCHANGED <<batch, quit, tickVars, dpc, sent, closeVars, flushVars,
                 panicked>>

\* TrackSync written as Track followed by the send: the event is queued too
TrackSyncCallViaQueue ==
  /\ ~panicked
  /\ UNCHANGED pureVars
  /\ spc = "idle"
  /\ nextId <= MaxEvents
  /\ syncSent' = Append(syncSent, [id |-> nextId, result |-> "pending",
                                    ret |-> "pending"])
  /\ Offer(NewEvent)
  /\ nextId' = nextId + 1
  /\ spc' = "sending"
  /\ UNCHANGED <<batch, quit, tickVars, dpc, sent, remaining, closeVars,
                 flushVars, panicked>>

\* TrackSync builds one event and calls c.sendEvents on the caller's goroutine
TrackSyncCall ==
  /\ ~panicked
  /\ UNCHANGED pureVars
  /\ spc = "idle"
  /\ nextId <= MaxEvents
  /\ syncSent' = Append(syncSent, [id |-> nextId, result |-> "pending",
                                    ret |-> "pending"])
  /\ nextId' = nextId + 1
  /\ spc' = "sending"
  /\ UNCHANGED <<events, batch, quit, tickVars, dpc, sent, accepted, dropped,
                 remaining, closeVars, flushVars, panicked>>

\* return c.sendEvents(...): the error of the call is TrackSync's result
TrackSyncReturn(r) ==
  /\ ~panicked
  /\ UNCHANGED pureVars
  /\ spc = "sending"
  /\ syncSent' = [syncSent EXCEPT ![Len(syncSent)].result = r,
                                  ![Len(syncSent)].ret = r]
  /\ spc' = "idle"
  /\ UNCHANGED <<events, batch, quit, tickVars, dpc, sent, prodVars,
                 closeVars, flushVars, panicked>>

(* ---- the ticker ---- *)

\* time.Ticker delivers into a channel of capacity 1 and drops ticks when full
TickerFire ==
  /\ ~panicked
  /\ UNCHANGED <<syncVars, pureVars>>
  /\ dpc # "done"
  /\ ~tickPending
  /\ tickPending' = TRUE
  /\ tickStale' = FALSE
  /\ UNCHANGED <<events, batch, quit, dpc, sent, prodVars, closeVars,
                 flushVars, panicked>>

(* ---- processEvents ---- *)

\* c.sendEvents(b) is entered: the batch is handed to the transport
CallSend(b, site) ==
  sent' = Append(sent, [events |-> b, site |-> site, state |->
                          IF site \in {"size", "tick"} THEN "RUNNING"
                          ELSE "DRAINING", result |-> "pending"])

\* c.sendEvents returns with outcome r
ReturnSend(r) ==
  sent' = [sent EXCEPT ![Len(sent)].result = r]

\* the size test written with > instead of >=
SizeReachedOffByOne(b) == Len(b) > BatchSize

\* if len(batch) >= c.batchSize
SizeReached(b) == Len(b) >= BatchSize

\* the size branch with the send started on a goroutine of its own
\* (go c.sendEvents(batch)): the loop goes on while the call is in flight
RecvCaseAsyncSend ==
  /\ ~panicked
  /\ UNCHANGED <<syncVars, pureVars>>
  /\ dpc = "select"
  /\ Len(events) > 0
  /\ events' = Tail(events)
  /\ LET b == Append(batch, Head(events)) IN
       IF SizeReached(b)
       THEN CallSend(b, "size") /\ batch' = <<>>
       ELSE batch' = b /\ sent' = sent
  /\ UNCHANGED <<quit, tickVars, dpc, prodVars, closeVars, flushVars,
                 panicked>>

\* case event := <-c.events
RecvCase ==
  /\ ~panicked
  /\ UNCHANGED <<syncVars, pureVars>>
  /\ dpc = "select"
  /\ Len(events) > 0
  /\ events' = Tail(events)
  /\ LET b == Append(batch, Head(events)) IN
       /\ batch' = b
       /\ IF SizeReached(b)
          THEN /\ CallSend(b, "size")
               /\ dpc' = "sizeSend"
               /\ tickStale' = tickPending
          ELSE UNCHANGED <<sent, dpc, tickStale>>
  /\ UNCHANGED <<quit, tickPending, prodVars, closeVars, flushVars, panicked>>

\* a flush that restarts the ticker: ticker.Reset plus a drained ticker.C
TickerRestarted(t) == FALSE

\* the size branch does nothing to the ticker: a tick held by ticker.C stays
TickerAfterSizeFlush(t) == t

\* the size branch without the batch = make(...) after the send
BatchKept(b) == b

\* batch = make([]*Event, 0, c.batchSize) after the send of the size branch
BatchAfterSizeFlush(b) == <<>>

\* batch = make([]*Event, 0, c.batchSize) after the send of the ticker branch
BatchAfterTickFlush(b) == <<>>

SizeSendReturn(r) ==
  /\ ~panicked
  /\ UNCHANGED <<syncVars, pureVars>>
  /\ dpc = "sizeSend"
  /\ ReturnSend(r)
  /\ batch' = BatchAfterSizeFlush(batch)
  /\ dpc' = "select"
  /\ tickPending' = TickerAfterSizeFlush(tickPending)
  /\ tickStale' = (tickStale /\ tickPending')
  /\ UNCHANGED <<events, quit, prodVars, closeVars, flushVars, panicked>>

\* the ticker case that takes the tick and sends nothing
TickCaseNoSend ==
  /\ ~panicked
  /\ UNCHANGED <<syncVars, pureVars>>
  /\ dpc = "select"
  /\ tickPending
  /\ tickPending' = FALSE
  /\ tickStale' = FALSE
  /\ UNCHANGED <<sent, dpc>>
  /\ UNCHANGED <<events, batch, quit, prodVars, closeVars, flushVars,
                 panicked>>

\* case <-ticker.C
TickCase ==
  /\ ~panicked
  /\ UNCHANGED <<syncVars, pureVars>>
  /\ dpc = "select"
  /\ tickPending
  /\ tickPending' = FALSE
  /\ tickStale' = FALSE
  /\ IF Len(batch) > 0
     THEN CallSend(batch, "tick") /\ dpc' = "tickSend"
     ELSE UNCHANGED <<sent, dpc>>
  /\ UNCHANGED <<events, batch, quit, prodVars, closeVars, flushVars,
                 panicked>>

TickSendReturn(r) ==
  /\ ~panicked
  /\ UNCHANGED <<syncVars, pureVars>>
  /\ dpc = "tickSend"
  /\ ReturnSend(r)
  /\ batch' = BatchAfterTickFlush(batch)
  /\ dpc' = "select"
  /\ UNCHANGED <<events, quit, tickVars, prodVars, closeVars, flushVars,
                 panicked>>

\* case <-c.quit: send what the accumulator holds
QuitCase ==
  /\ ~panicked
  /\ UNCHANGED <<syncVars, pureVars>>
  /\ dpc = "select"
  /\ quit
  /\ IF Len(batch) > 0
     THEN CallSend(batch, "quit") /\ dpc' = "quitSend"
     ELSE sent' = sent /\ dpc' = "drainLoop"
  /\ UNCHANGED <<events, batch, quit, tickVars, prodVars, closeVars,
                 flushVars, panicked>>

\* the slice is not reset after the first send of the quit branch
BatchAfterQuitSend(b) == b

QuitSendReturn(r) ==
  /\ ~panicked
  /\ UNCHANGED <<syncVars, pureVars>>
  /\ dpc = "quitSend"
  /\ ReturnSend(r)
  /\ batch' = BatchAfterQuitSend(batch)
  /\ dpc' = "drainLoop"
  /\ UNCHANGED <<events, quit, tickVars, prodVars, closeVars, flushVars,
                 panicked>>

\* the drain loop that returns without the last send of what is left
DrainStepNoFinalSend ==
  /\ ~panicked
  /\ UNCHANGED <<syncVars, pureVars>>
  /\ dpc = "drainLoop"
  /\ IF Len(events) > 0
     THEN /\ events' = Tail(events)
          /\ LET b == Append(batch, Head(events)) IN
               /\ batch' = b
               /\ IF SizeReached(b)
                  THEN CallSend(b, "drain") /\ dpc' = "drainSend"
                  ELSE UNCHANGED <<sent, dpc>>
     ELSE /\ UNCHANGED <<events, batch>>
          /\ sent' = sent /\ dpc' = "done"
  /\ UNCHANGED <<quit, tickVars, prodVars, closeVars, flushVars, panicked>>

\* for len(c.events) > 0 { ... }; if len(batch) > 0 { send }; return
DrainStep ==
  /\ ~panicked
  /\ UNCHANGED <<syncVars, pureVars>>
  /\ dpc = "drainLoop"
  /\ IF Len(events) > 0
     THEN /\ events' = Tail(events)
          /\ LET b == Append(batch, Head(events)) IN
               /\ batch' = b
               /\ IF SizeReached(b)
                  THEN CallSend(b, "drain") /\ dpc' = "drainSend"
                  ELSE UNCHANGED <<sent, dpc>>
     ELSE /\ UNCHANGED <<events, batch>>
          /\ IF Len(batch) > 0
             THEN CallSend(batch, "final") /\ dpc' = "finalSend"
             ELSE sent' = sent /\ dpc' = "done"
  /\ UNCHANGED <<quit, tickVars, prodVars, closeVars, flushVars, panicked>>

\* the drain loop without the fresh slice after its send
DrainSendReturnKeepsBatch(r) ==
  /\ ~panicked
  /\ UNCHANGED <<syncVars, pureVars>>
  /\ dpc = "drainSend"
  /\ ReturnSend(r)
  /\ batch' = batch
  /\ dpc' = "drainLoop"
  /\ UNCHANGED <<events, quit, tickVars, prodVars, closeVars, flushVars,
                 panicked>>

DrainSendReturn(r) ==
  /\ ~panicked
  /\ UNCHANGED <<syncVars, pureVars>>
  /\ dpc = "drainSend"
  /\ ReturnSend(r)
  /\ batch' = <<>>
  /\ dpc' = "drainLoop"
  /\ UNCHANGED <<events, quit, tickVars, prodVars, closeVars, flushVars,
                 panicked>>

FinalSendReturn(r) ==
  /\ ~panicked
  /\ UNCHANGED <<syncVars, pureVars>>
  /\ dpc = "finalSend"
  /\ ReturnSend(r)
  /\ dpc' = "done"
  /\ UNCHANGED <<events, batch, quit, tickVars, prodVars, closeVars,
                 flushVars, panicked>>

(* ---- Close ---- *)

\* close(c.quit) by any goroutine: closing a closed channel panics
CloseCall ==
  /\ ~panicked
  /\ UNCHANGED <<syncVars, pureVars>>
  /\ IF quit
     THEN /\ panicked' = TRUE
          /\ UNCHANGED <<quit, cpc, closeSnap>>
     ELSE /\ quit' = TRUE
          /\ cpc' = "waiting"
          /\ closeSnap' = Len(accepted)
          /\ panicked' = FALSE
  /\ UNCHANGED <<events, batch, tickVars, dpc, sent, prodVars, closeRet,
                 flushVars>>

\* Close without the wg.Wait(): it returns while the goroutine still drains
WaitDoneNoWait == TRUE

\* c.wg.Wait() returns once processEvents has run wg.Done
WaitDone == dpc = "done"

\* the value Close returns
CloseResult == "nil"

CloseReturn ==
  /\ ~panicked
  /\ UNCHANGED <<syncVars, pureVars>>
  /\ cpc = "waiting"
  /\ WaitDone
  /\ cpc' = "returned"
  /\ closeRet' = CloseResult
  /\ UNCHANGED <<events, batch, quit, tickVars, dpc, sent, prodVars,
                 closeSnap, flushVars, panicked>>

(* ---- Flush ---- *)

FlushCall ==
  /\ ~panicked
  /\ UNCHANGED <<syncVars, pureVars>>
  /\ fpc \in {"idle", "retEmpty"}
  /\ fpc' = "polling"
  /\ flushSnap' = Len(accepted)
  /\ UNCHANGED <<events, batch, quit, tickVars, dpc, sent, prodVars,
                 closeVars, panicked>>

\* what a poll of Flush looks at
FlushObservesEmpty == Len(events) = 0

\* case <-ticker.C: if len(c.events) == 0 { return }
FlushPoll ==
  /\ ~panicked
  /\ UNCHANGED <<syncVars, pureVars>>
  /\ fpc = "polling"
  /\ FlushObservesEmpty
  /\ fpc' = "retEmpty"
  /\ UNCHANGED <<events, batch, quit, tickVars, dpc, sent, prodVars,
                 closeVars, flushSnap, panicked>>

\* the poll loop without its timeout case: only an empty poll ends it
FlushTimeoutNever ==
  /\ FALSE
  /\ UNCHANGED vars

\* case <-timeout: return
FlushTimeout ==
  /\ ~panicked
  /\ UNCHANGED <<syncVars, pureVars>>
  /\ fpc = "polling"
  /\ fpc' = "idle"
  /\ flushSnap' = 0
  /\ UNCHANGED <<events, batch, quit, tickVars, dpc, sent, prodVars,
                 closeVars, panicked>>

Next ==
  \/ Track
  \/ TrackEvent
  \/ \E n \in 1..MaxTrackBatch : TrackBatchCall(n)
  \/ TrackBatchStep
  \/ TickerFire
  \/ RecvCase
  \/ \E r \in Outcomes : SizeSendReturn(r)
  \/ TickCase
  \/ \E r \in Outcomes : TickSendReturn(r)
  \/ QuitCase
  \/ \E r \in Outcomes : QuitSendReturn(r)
  \/ DrainStep
  \/ \E r \in Outcomes : DrainSendReturn(r)
  \/ \E r \in Outcomes : FinalSendReturn(r)
  \/ CloseCall
  \/ CloseReturn
  \/ FlushCall
  \/ FlushPoll
  \/ FlushTimeout

Spec == Init /\ [][Next]_vars

\* the client with TrackSync callers beside the queueing operations
NextSync ==
  \/ Next
  \/ TrackSyncCall
  \/ \E r \in Outcomes : TrackSyncReturn(r)

SpecSync == Init /\ [][NextSync]_vars

\* time.After(5 * time.Second) fires and the Flush goroutine is scheduled
FairSpec == Spec /\ WF_vars(FlushTimeout)

\* The processEvents goroutine is scheduled, select takes each case that is
\* ready again and again (it chooses among the ready cases at random), every
\* sendEvents call returns, and the goroutine in Close is scheduled.
DispatcherFair ==
  /\ SF_vars(RecvCase)
  /\ SF_vars(TickCase)
  /\ SF_vars(QuitCase)
  /\ WF_vars(DrainStep)
  /\ WF_vars(\E r \in Outcomes : SizeSendReturn(r))
  /\ WF_vars(\E r \in Outcomes : TickSendReturn(r))
  /\ WF_vars(\E r \in Outcomes : QuitSendReturn(r))
  /\ WF_vars(\E r \in Outcomes : DrainSendReturn(r))
  /\ WF_vars(\E r \in Outcomes : FinalSendReturn(r))
  /\ WF_vars(CloseReturn)

\* the client in use, with neither Flush nor Close called
NextRunning ==
  \/ Track
  \/ TrackEvent
  \/ \E n \in 1..MaxTrackBatch : TrackBatchCall(n)
  \/ TrackBatchStep
  \/ TickerFire
  \/ RecvCase
  \/ \E r \in Outcomes : SizeSendReturn(r)
  \/ TickCase
  \/ \E r \in Outcomes : TickSendReturn(r)

\* the ticker fires for ever, select takes each case that is ready again and
\* again, and every sendEvents call returns
RunningFair ==
  /\ WF_vars(TickerFire)
  /\ SF_vars(RecvCase)
  /\ SF_vars(TickCase)
  /\ WF_vars(\E r \in Outcomes : SizeSendReturn(r))
  /\ WF_vars(\E r \in Outcomes : TickSendReturn(r))

LiveSpec == Init /\ [][NextRunning]_vars /\ RunningFair

\* The logs and the event counter serve the properties, not the client:
\* starting them afresh once the counter is used up lets producers call
\* Track without end during the drain.
ForgetHistory ==
  /\ ~panicked
  /\ quit
  /\ dpc = "drainLoop"
  /\ remaining = 0
  /\ fpc = "idle"
  /\ nextId > MaxEvents
  /\ nextId' = 1
  /\ accepted' = <<>>
  /\ dropped' = {}
  /\ sent' = <<>>
  /\ closeSnap' = 0
  /\ UNCHANGED <<events, batch, quit, tickVars, dpc, remaining, cpc, closeRet,
                 flushVars, panicked, syncVars, pureVars>>

\* producers that call Track, the goroutine processEvents, and Close
NextForever ==
  \/ Track
  \/ TickerFire
  \/ RecvCase
  \/ \E r \in Outcomes : SizeSendReturn(r)
  \/ TickCase
  \/ \E r \in Outcomes : TickSendReturn(r)
  \/ QuitCase
  \/ \E r \in Outcomes : QuitSendReturn(r)
  \/ DrainStep
  \/ \E r \in Outcomes : DrainSendReturn(r)
  \/ \E r \in Outcomes : FinalSendReturn(r)
  \/ CloseCall
  \/ CloseReturn
  \/ ForgetHistory

\* the client with producers that never stop
DrainSpec == Init /\ [][NextForever]_vars /\ DispatcherFair

(* ----------------------------------------------------------------------- *)
(* TrackBatch with timestamps                                              *)
(* ----------------------------------------------------------------------- *)

\* Event.Timestamp as the caller may have filled it in: 0 (left unset) or a
\* value no reading of the clock equals
GivenStamps == {0, MaxClock + 5}

\* the longest batch handed to TrackBatch: it outlasts a full queue by two
MaxBatchLen == BufferSize + 2

\* events []Event, each given by the Timestamp its caller supplied
BatchInputs ==
  UNION {[1..n -> GivenStamps] : n \in 1..MaxBatchLen}

\* the copy keeps the Timestamp the caller supplied
StampCallerSupplied(given, now) == given

\* evt.Timestamp = time.Now().Unix()
Stamp(given, now) == now

\* evt := event; evt.Timestamp = ...; at and given record the clock at the
\* enqueue and the caller's value
StampedEvent(given, now) ==
  [id |-> nextId, ts |-> Stamp(given, now), at |-> now, given |-> given]

\* construction followed by the call c.TrackBatch(events)
BatchInit ==
  /\ ClientInit
  /\ errv = <<>>
  /\ \E b \in BatchInputs :
       /\ cin = [kind |-> "batch", now |-> 1, input |-> b]
       /\ call = [op |-> "TrackBatch", rest |-> b]

\* time.Now() advances between two iterations
ClockTick ==
  /\ cin.kind = "batch"
  /\ cin.now < MaxClock
  /\ cin' = [cin EXCEPT !.now = @ + 1]
  /\ UNCHANGED <<clientVars, errv, call>>

\* a loop that returns at the first event the queue refuses
TrackBatchIterAbortOnDrop ==
  /\ ~panicked
  /\ call.op = "TrackBatch"
  /\ call.rest # <<>>
  /\ Offer(StampedEvent(Head(call.rest), cin.now))
  /\ nextId' = nextId + 1
  /\ call' = [call EXCEPT !.rest = IF Len(events) < BufferSize
                                   THEN Tail(call.rest) ELSE <<>>]
  /\ UNCHANGED <<batch, quit, tickVars, dpc, sent, remaining, closeVars,
                 flushVars, panicked, syncVars, errv, cin>>

\* one iteration of for _, event := range events
TrackBatchIter ==
  /\ ~panicked
  /\ call.op = "TrackBatch"
  /\ call.rest # <<>>
  /\ Offer(StampedEvent(Head(call.rest), cin.now))
  /\ nextId' = nextId + 1
  /\ call' = [call EXCEPT !.rest = Tail(call.rest)]
  /\ UNCHANGED <<batch, quit, tickVars, dpc, sent, remaining, closeVars,
                 flushVars, panicked, syncVars, errv, cin>>

BatchNext ==
  \/ TrackBatchIter
  \/ ClockTick
  \/ TickerFire
  \/ RecvCase
  \/ \E r \in Outcomes : SizeSendReturn(r)
  \/ TickCase
  \/ \E r \in Outcomes : TickSendReturn(r)

BatchSpec == BatchInit /\ [][BatchNext]_vars

(* ----------------------------------------------------------------------- *)
(* the user id of a batch                                                  *)
(* ----------------------------------------------------------------------- *)

\* c.userID: empty unless WithUserID or SetUserID set it
UserIDs == {"", "user-123"}

\* NewClient with or without WithUserID
UserInit ==
  /\ ClientInit
  /\ errv = <<>>
  /\ call = [op |-> "none"]
  /\ \E u \in UserIDs : cin = [kind |-> "user", userID |-> u]

\* c.userID = userID
SetUserID(u) ==
  /\ cin.kind = "user"
  /\ cin.userID # u
  /\ cin' = [cin EXCEPT !.userID = u]
  /\ UNCHANGED <<clientVars, errv, call>>

\* Track, the event tagged with the user id in force at the call
TrackAsUser ==
  /\ ~panicked
  /\ cin.kind = "user"
  /\ nextId <= MaxEvents
  /\ Offer([id |-> nextId, under |-> cin.userID])
  /\ nextId' = nextId + 1
  /\ UNCHANGED <<batch, quit, tickVars, dpc, sent, remaining, closeVars,
                 flushVars, panicked, syncVars, pureVars>>

\* "user_id": c.userID in the payload sendEvents builds
PayloadUserID == cin.userID

UserNext ==
  \/ TrackAsUser
  \/ \E u \in UserIDs : SetUserID(u)
  \/ TickerFire
  \/ RecvCase
  \/ \E r \in Outcomes : SizeSendReturn(r)
  \/ TickCase
  \/ \E r \in Outcomes : TickSendReturn(r)

UserSpec == UserInit /\ [][UserNext]_vars

(* ======================================================================= *)
(* Error values (errors.go) and what the send functions return             *)
(* ======================================================================= *)

\* An error value is its Unwrap chain, outermost first; nil is the empty
\* chain. A chain ends in a sentinel or in a plain error (errors.New, a
\* fmt.Errorf without %w, an error of another package).
Node(kind, info, retryable, status) ==
  [kind |-> kind, info |-> info, retryable |-> retryable, status |-> status]

NilError == <<>>
Sentinel(name) == <<Node("sentinel", name, FALSE, 0)>>
Plain(text) == <<Node("plain", text, FALSE, 0)>>
\* fmt.Errorf("...%w...", e)
Wrapf(msg, e) == <<Node("wrap", msg, FALSE, 0)>> \o e

\* newClientError(op, err)
newClientError(op, e) == <<Node("ClientError", op, FALSE, 0)>> \o e

\* newNetworkError(op, url, statusCode, err, retryable)
newNetworkError(op, status, e, retryable) ==
  <<Node("NetworkError", op, retryable, status)>> \o e

\* errors.As(err, &target) for a target of the given type: the first error of
\* that type on the chain, as a one-element sequence, or <<>>
RECURSIVE ErrorsAs(_, _)
ErrorsAs(e, kind) ==
  IF e = <<>> THEN <<>>
  ELSE IF Head(e).kind = kind THEN <<Head(e)>>
  ELSE ErrorsAs(Tail(e), kind)

\* errors.Is(err, sentinel)
RECURSIVE ErrorsIs(_, _)
ErrorsIs(e, name) ==
  IF e = <<>> THEN FALSE
  ELSE IF Head(e).kind = "sentinel" /\ Head(e).info = name THEN TRUE
  ELSE ErrorsIs(Tail(e), name)

isRetryableError(e) ==
  IF e = <<>> THEN FALSE
  ELSE LET netErr == ErrorsAs(e, "NetworkError") IN
         IF netErr # <<>> THEN netErr[1].retryable
         ELSE IF ErrorsIs(e, "ErrNetworkTimeout")
                 \/ ErrorsIs(e, "ErrNetworkFailure")
              THEN TRUE
              ELSE FALSE

\* wrapError without the test for an error of our own types
wrapErrorAlways(op, e) ==
  IF e = <<>> THEN <<>> ELSE newClientError(op, e)

wrapError(op, e) ==
  IF e = <<>> THEN <<>>
  ELSE IF ErrorsAs(e, "ClientError") # <<>> \/ ErrorsAs(e, "NetworkError") # <<>>
       THEN e
       ELSE newClientError(op, e)

\* What happens to one send: the step that fails, if any, and the status of
\* the response, if one arrives.
Statuses == {200, 201, 204, 400, 404, 500, 503}

SendOutcomes ==
  {[fail |-> f, status |-> 0] : f \in {"marshal", "encrypt", "net"}}
  \cup {[fail |-> f, status |-> st] : f \in {"none", "decrypt"}, st \in Statuses}

\* the status test of sendEvents and sendInstallInfo
StatusError(st) ==
  IF st >= 500
  THEN newNetworkError("POST", st, Sentinel("ErrServerResponse"), TRUE)
  ELSE IF st >= 400
       THEN newNetworkError("POST", st, Sentinel("ErrServerResponse"), FALSE)
       ELSE NilError

\* Client.sendEvents of the client that posts by itself
sendEvents(o) ==
  IF o.fail = "marshal"
  THEN newClientError("sendEvents", Wrapf("%w: %v", Sentinel("ErrMarshalFailed")))
  ELSE IF o.fail = "encrypt"
  THEN newClientError("sendEvents", Wrapf("%w: %v", Sentinel("ErrEncryptionFailed")))
  ELSE IF o.fail = "net"
  THEN newNetworkError("POST", 0, Wrapf("%w: %v", Sentinel("ErrNetworkFailure")), TRUE)
  ELSE StatusError(o.status)

\* Client.sendInstallInfo: it never encrypts and ignores the response body
sendInstallInfo(o) ==
  IF o.fail = "marshal"
  THEN newClientError("sendInstallInfo",
                      Wrapf("%w: %v", Sentinel("ErrMarshalFailed")))
  ELSE IF o.fail = "net"
  THEN newNetworkError("POST", 0, Wrapf("%w: %v", Sentinel("ErrNetworkFailure")), TRUE)
  ELSE IF o.fail = "encrypt" THEN NilError
  ELSE StatusError(o.status)

\* Client.sendRequest: the payload is already marshalled
sendRequest(o) ==
  IF o.fail = "encrypt" THEN Wrapf("encrypt request: %w", Plain("aes"))
  ELSE IF o.fail = "net" THEN Plain("url.Error")
  ELSE IF o.fail = "decrypt" THEN Wrapf("decrypt response: %w", Plain("aes"))
  ELSE IF o.status # 200 THEN Plain("server returned status")
  ELSE NilError

\* Client.sendEvents of the client that posts through sendRequest
sendEventsViaRequest(o) ==
  IF o.fail = "marshal" THEN Wrapf("marshal events: %w", Plain("json"))
  ELSE sendRequest(o)

Ops == {"Track", "Flush"}

Wrappers ==
  {Node("ClientError", op, FALSE, 0) : op \in Ops}
  \cup {Node("NetworkError", "POST", TRUE, 503),
        Node("NetworkError", "POST", FALSE, 404),
        Node("wrap", "%w", FALSE, 0)}

Leaves ==
  {Sentinel(n) : n \in {"ErrNetworkTimeout", "ErrNetworkFailure",
                        "ErrServerResponse", "ErrMarshalFailed"}}
  \cup {Plain("some error")}

\* the error values with at most n wrappers around a leaf
RECURSIVE Chains(_)
Chains(n) ==
  IF n = 0 THEN Leaves
  ELSE Chains(n - 1) \cup {<<w>> \o c : w \in Wrappers, c \in Chains(n - 1)}

ErrorValues == {NilError} \cup Chains(MaxWrap)

ErrInit ==
  /\ ClientInit
  /\ errv \in ErrorValues
  /\ call = [op |-> "none"]
  /\ cin = [kind |-> "none"]

ApplyIsRetryable ==
  /\ call' = [op |-> "isRetryableError", in |-> errv,
              out |-> isRetryableError(errv)]
  /\ UNCHANGED <<errv, cin, clientVars>>

ApplyWrapError(op) ==
  /\ call' = [op |-> "wrapError", arg |-> op, in |-> errv,
              out |-> wrapError(op, errv)]
  /\ errv' = wrapError(op, errv)
  /\ UNCHANGED <<cin, clientVars>>

SendEventsReturns(o) ==
  /\ call' = [op |-> "sendEvents", in |-> o, out |-> sendEvents(o)]
  /\ errv' = sendEvents(o)
  /\ UNCHANGED <<cin, clientVars>>

SendInstallInfoReturns(o) ==
  /\ o.fail # "encrypt"
  /\ call' = [op |-> "sendInstallInfo", in |-> o, out |-> sendInstallInfo(o)]
  /\ errv' = sendInstallInfo(o)
  /\ UNCHANGED <<cin, clientVars>>

SendRequestReturns(o) ==
  /\ o.fail # "marshal"
  /\ call' = [op |-> "sendRequest", in |-> o, out |-> sendRequest(o)]
  /\ errv' = sendRequest(o)
  /\ UNCHANGED <<cin, clientVars>>

SendEventsViaRequestReturns(o) ==
  /\ call' = [op |-> "sendEventsViaRequest", in |-> o,
              out |-> sendEventsViaRequest(o)]
  /\ errv' = sendEventsViaRequest(o)
  /\ UNCHANGED <<cin, clientVars>>

ErrNext ==
  \/ ApplyIsRetryable
  \/ \E op \in Ops : ApplyWrapError(op)
  \/ \E o \in SendOutcomes : SendEventsReturns(o)
  \/ \E o \in SendOutcomes : SendInstallInfoReturns(o)
  \/ \E o \in SendOutcomes : SendRequestReturns(o)
  \/ \E o \in SendOutcomes : SendEventsViaRequestReturns(o)

ErrSpec == ErrInit /\ [][ErrNext]_vars

(* ======================================================================= *)
(* AES-CBC encryption (aes.go, encryption.go)                              *)
(* ======================================================================= *)

\* A byte string is a sequence of numbers 0..255. A function result is a
\* record: err is "none", the reason of the error returned, or "panic".
Ok(d) == [err |-> "none", data |-> d]
Fail(why) == [err |-> why, data |-> <<>>]
Panic == [err |-> "panic", data |-> <<>>]

\* block.BlockSize() of crypto/aes
BlockSize == 16

Zeros(n) == [i \in 1..n |-> 0]

\* a key of a length in between taken to the nearest valid length, padded
\* with zeros when that is the longer one
NormalizeKeyNearest(key) ==
  LET keyLen == Len(key) IN
    IF keyLen \in {16, 24, 32} THEN key
    ELSE IF keyLen < 16 THEN key \o Zeros(16 - keyLen)
    ELSE IF keyLen > 32 THEN SubSeq(key, 1, 32)
    ELSE IF keyLen > 28 THEN key \o Zeros(32 - keyLen)
    ELSE IF keyLen > 24 THEN SubSeq(key, 1, 24)
    ELSE IF keyLen > 20 THEN key \o Zeros(24 - keyLen)
    ELSE SubSeq(key, 1, 16)

\* the key adjustment at the head of AESEncrypt and AESDecrypt
NormalizeKey(key) ==
  LET keyLen == Len(key) IN
    IF keyLen \in {16, 24, 32} THEN key
    ELSE IF keyLen < 16 THEN key \o Zeros(16 - keyLen)
    ELSE IF keyLen > 32 THEN SubSeq(key, 1, 32)
    ELSE IF keyLen > 24 THEN SubSeq(key, 1, 24)
    ELSE SubSeq(key, 1, 16)

\* validateKeyLength with a short key returned as it is
validateKeyLengthNoPad(key) ==
  LET keyLen == Len(key) IN
    IF keyLen >= 32 THEN SubSeq(key, 1, 32)
    ELSE IF keyLen >= 24 THEN SubSeq(key, 1, 24)
    ELSE IF keyLen >= 16 THEN SubSeq(key, 1, 16)
    ELSE key

validateKeyLength(key) ==
  LET keyLen == Len(key) IN
    IF keyLen >= 32 THEN SubSeq(key, 1, 32)
    ELSE IF keyLen >= 24 THEN SubSeq(key, 1, 24)
    ELSE IF keyLen >= 16 THEN SubSeq(key, 1, 16)
    ELSE key \o Zeros(16 - keyLen)

\* aes.NewCipher(key) returns a KeySizeError for any other length
NewCipherOK(key) == Len(key) \in {16, 24, 32}

RECURSIVE Xor(_, _)
Xor(a, b) ==
  IF a = 0 THEN b
  ELSE IF b = 0 THEN a
  ELSE (((a % 2) + (b % 2)) % 2) + 2 * Xor(a \div 2, b \div 2)

XorBlock(x, y) == [i \in 1..BlockSize |-> Xor(x[i], y[i])]

\* The block permutation of crypto/aes is outside the repository; it is
\* stood for by a keyed bijection on blocks (a rotation and a key-dependent
\* shift of each byte).
Mix(key, i) == (key[i] + key[Len(key) - i + 1] + Len(key)) % 256

EncryptBlock(key, b) ==
  [i \in 1..BlockSize |-> (b[(i % BlockSize) + 1] + Mix(key, i)) % 256]

DecryptBlock(key, c) ==
  [j \in 1..BlockSize |->
     LET i == IF j = 1 THEN BlockSize ELSE j - 1 IN
       (c[i] + 256 - Mix(key, i)) % 256]

\* cipher.NewCBCEncrypter(block, iv).CryptBlocks over whole blocks
RECURSIVE CBCEncrypt(_, _, _)
CBCEncrypt(key, prev, data) ==
  IF data = <<>> THEN <<>>
  ELSE LET c == EncryptBlock(key, XorBlock(SubSeq(data, 1, BlockSize), prev)) IN
         c \o CBCEncrypt(key, c, SubSeq(data, BlockSize + 1, Len(data)))

\* cipher.NewCBCDecrypter(block, iv).CryptBlocks over whole blocks
RECURSIVE CBCDecrypt(_, _, _)
CBCDecrypt(key, prev, data) ==
  IF data = <<>> THEN <<>>
  ELSE LET c == SubSeq(data, 1, BlockSize) IN
         XorBlock(DecryptBlock(key, c), prev)
           \o CBCDecrypt(key, c, SubSeq(data, BlockSize + 1, Len(data)))

\* padding that adds nothing to data that already fills its blocks
pkcs7PaddingNoFullBlock(data, blockSize) ==
  LET padding == (blockSize - (Len(data) % blockSize)) % blockSize IN
    data \o [i \in 1..padding |-> padding]

pkcs7Padding(data, blockSize) ==
  LET padding == blockSize - (Len(data) % blockSize) IN
    data \o [i \in 1..padding |-> padding]

pkcs7UnPadding(data) ==
  LET length == Len(data) IN
    IF length = 0 THEN Fail("invalid padding size")
    ELSE LET unpadding == data[length] IN
           IF unpadding > length THEN Fail("invalid padding")
           ELSE Ok(SubSeq(data, 1, length - unpadding))

\* base64.StdEncoding: a string is a sequence of symbols, 0..63 for the
\* alphabet, B64Pad for '=', B64Bad for a character outside the alphabet
B64Pad == 64
B64Bad == 65

RECURSIVE B64Encode(_)
B64Encode(d) ==
  IF Len(d) = 0 THEN <<>>
  ELSE IF Len(d) = 1
       THEN <<(d[1] \div 4), (d[1] % 4) * 16, B64Pad, B64Pad>>
  ELSE IF Len(d) = 2
       THEN <<(d[1] \div 4), (d[1] % 4) * 16 + (d[2] \div 16), (d[2] % 16) * 4,
              B64Pad>>
  ELSE <<(d[1] \div 4), (d[1] % 4) * 16 + (d[2] \div 16),
         (d[2] % 16) * 4 + (d[3] \div 64), d[3] % 64>>
         \o B64Encode(SubSeq(d, 4, Len(d)))

RECURSIVE B64DecodeGroups(_)
B64DecodeGroups(s) ==
  IF s = <<>> THEN Ok(<<>>)
  ELSE LET last == Len(s) = 4 IN
    IF \E i \in 1..4 : s[i] > B64Pad THEN Fail("illegal base64 data")
    ELSE IF s[1] = B64Pad \/ s[2] = B64Pad THEN Fail("illegal base64 data")
    ELSE IF s[3] = B64Pad
         THEN IF last /\ s[4] = B64Pad
              THEN Ok(<<s[1] * 4 + (s[2] \div 16)>>)
              ELSE Fail("illegal base64 data")
    ELSE IF s[4] = B64Pad
         THEN IF last
              THEN Ok(<<s[1] * 4 + (s[2] \div 16), (s[2] % 16) * 16 + (s[3] \div 4)>>)
              ELSE Fail("illegal base64 data")
    ELSE LET r == B64DecodeGroups(SubSeq(s, 5, Len(s))) IN
           IF r.err # "none" THEN r
           ELSE Ok(<<s[1] * 4 + (s[2] \div 16), (s[2] % 16) * 16 + (s[3] \div 4),
                     (s[3] % 4) * 64 + s[4]>> \o r.data)

B64Decode(s) ==
  IF Len(s) % 4 # 0 THEN Fail("illegal base64 data") ELSE B64DecodeGroups(s)

\* an IV taken from what the environment supplies at the call
IVFromEntropy(key, rnd) == [i \in 1..BlockSize |-> rnd]

\* iv := key[:block.BlockSize()]; rnd is what the environment could supply at
\* the call (clock, random source), of which the code reads nothing
IV(key, rnd) == SubSeq(key, 1, BlockSize)

AESEncrypt(key0, plaintext, rnd) ==
  LET key == NormalizeKey(key0) IN
    IF ~NewCipherOK(key) THEN Fail("invalid key size")
    ELSE LET paddedData == pkcs7Padding(plaintext, BlockSize) IN
           Ok(B64Encode(CBCEncrypt(key, IV(key, rnd), paddedData)))

AESDecrypt(key0, ciphertextBase64) ==
  LET key == NormalizeKey(key0)
      dec == B64Decode(ciphertextBase64)
  IN IF dec.err # "none" THEN dec
     ELSE IF ~NewCipherOK(key) THEN Fail("invalid key size")
     ELSE IF Len(dec.data) % BlockSize # 0
          THEN Fail("ciphertext is not a multiple of the block size")
     ELSE pkcs7UnPadding(CBCDecrypt(key, SubSeq(key, 1, BlockSize), dec.data))

\* aesEncrypt of encryption.go: the key is used as it is given
aesEncrypt(key, data, rnd) ==
  IF ~NewCipherOK(key) THEN Fail("invalid key size")
  ELSE LET encryptBytes == pkcs7Padding(data, BlockSize) IN
         Ok(B64Encode(CBCEncrypt(key, IV(key, rnd), encryptBytes)))

\* aesDecrypt of encryption.go: CryptBlocks is called without a test of the
\* length and panics on input that is not whole blocks
aesDecrypt(key, dataStr) ==
  IF ~NewCipherOK(key) THEN Fail("invalid key size")
  ELSE LET dec == B64Decode(dataStr) IN
         IF dec.err # "none" THEN dec
         ELSE IF Len(dec.data) % BlockSize # 0 THEN Panic
         ELSE pkcs7UnPadding(CBCDecrypt(key, SubSeq(key, 1, BlockSize), dec.data))


(* ---- inputs and calls of the encryption functions ---- *)

\* what a clock or a random source could supply at a call
Entropy == {0, 1}

KeyOf(n, seed) == [i \in 1..n |-> (i * seed) % 256]

Keys == {KeyOf(n, seed) : n \in 0..MaxKeyLen, seed \in {1, 3}}

\* n bytes, the last of them l
BytesOf(n, l) == [i \in 1..n |-> IF i = n THEN l ELSE 64 + i]

Plaintexts == {BytesOf(n, l) : n \in 0..MaxPlainLen, l \in {0, 1, 16, 65}}

\* keys of the inputs handed to the decrypt functions directly
CipherKeys == {k \in Keys : Len(k) \in {10, 16, 32}}

\* whole-block buffers whose last byte is not a valid pad: 0, a count that is
\* not repeated, a count above the block size, a count above the length
BadPadBuffers ==
  {BytesOf(n, l) : n \in {BlockSize, 2 * BlockSize}, l \in {0, 3, 17, 33}}

\* the base64 string that decrypts to buf under key without unpadding
Forge(key, buf) ==
  LET k == NormalizeKey(key) IN
    B64Encode(CBCEncrypt(k, SubSeq(k, 1, BlockSize), buf))

\* byte strings that are empty or not whole blocks
RaggedBuffers ==
  {BytesOf(n, 65) : n \in {m \in 0..MaxPlainLen : m = 0 \/ m % BlockSize # 0}}

\* strings that are not base64
CorruptBase64 == {<<1, 2, 3>>, <<1, 2, 3, B64Bad>>, <<B64Pad, 1, 2, 3>>}

CipherInputs ==
  {[kind |-> "cipher", key |-> k, data |-> Forge(k, b), buf |-> b,
    why |-> "badpad"] : k \in CipherKeys, b \in BadPadBuffers}
  \cup {[kind |-> "cipher", key |-> k, data |-> B64Encode(b), buf |-> b,
         why |-> "ragged"] : k \in CipherKeys, b \in RaggedBuffers}
  \cup {[kind |-> "cipher", key |-> k, data |-> c, buf |-> <<>>,
         why |-> "base64"] : k \in CipherKeys, c \in CorruptBase64}

PlainInputs ==
  {[kind |-> "plain", key |-> k, data |-> p] : k \in Keys, p \in Plaintexts}

CryptInit ==
  /\ ClientInit
  /\ errv = <<>>
  /\ call = [op |-> "none"]
  /\ cin \in PlainInputs \cup CipherInputs

AESEncryptCall(rnd) ==
  /\ cin.kind = "plain"
  /\ call' = [op |-> "AESEncrypt", key |-> cin.key, in |-> cin.data,
              res |-> AESEncrypt(cin.key, cin.data, rnd)]
  /\ UNCHANGED <<cin, errv, clientVars>>

\* AESDecrypt applied to what AESEncrypt returned, with the same key
AESRoundTrip ==
  /\ cin.kind = "plain"
  /\ call.op = "AESEncrypt"
  /\ call.res.err = "none"
  /\ call' = [op |-> "AESDecrypt", of |-> "roundtrip", key |-> cin.key,
              in |-> call.res.data,
              res |-> AESDecrypt(cin.key, call.res.data)]
  /\ UNCHANGED <<cin, errv, clientVars>>

\* the client's own pair, with the key WithEncryption stores
aesEncryptCall(rnd) ==
  /\ cin.kind = "plain"
  /\ call' = [op |-> "aesEncrypt", key |-> validateKeyLength(cin.key),
              in |-> cin.data,
              res |-> aesEncrypt(validateKeyLength(cin.key), cin.data, rnd)]
  /\ UNCHANGED <<cin, errv, clientVars>>

aesRoundTrip ==
  /\ cin.kind = "plain"
  /\ call.op = "aesEncrypt"
  /\ call.res.err = "none"
  /\ call' = [op |-> "aesDecrypt", of |-> "roundtrip", key |-> call.key,
              in |-> call.res.data,
              res |-> aesDecrypt(call.key, call.res.data)]
  /\ UNCHANGED <<cin, errv, clientVars>>

AESDecryptGiven ==
  /\ cin.kind = "cipher"
  /\ call' = [op |-> "AESDecrypt", of |-> "given", key |-> cin.key,
              in |-> cin.data, res |-> AESDecrypt(cin.key, cin.data)]
  /\ UNCHANGED <<cin, errv, clientVars>>

aesDecryptGiven ==
  /\ cin.kind = "cipher"
  /\ call' = [op |-> "aesDecrypt", of |-> "given",
              key |-> validateKeyLength(cin.key), in |-> cin.data,
              res |-> aesDecrypt(validateKeyLength(cin.key), cin.data)]
  /\ UNCHANGED <<cin, errv, clientVars>>

ValidateKeyCall ==
  /\ cin.kind = "plain"
  /\ call' = [op |-> "validateKeyLength", in |-> cin.key,
              out |-> validateKeyLength(cin.key)]
  /\ UNCHANGED <<cin, errv, clientVars>>

\* both key adjustments applied to one key, and each applied to a result
NormalizeKeyCall ==
  /\ cin.kind = "plain"
  /\ call' = [op |-> "NormalizeKey", in |-> cin.key,
              inline |-> NormalizeKey(cin.key),
              validated |-> validateKeyLength(cin.key),
              inlineAgain |-> NormalizeKey(NormalizeKey(cin.key)),
              validatedAgain |->
                validateKeyLength(validateKeyLength(cin.key)),
              inlineOfValidated |-> NormalizeKey(validateKeyLength(cin.key)),
              validatedOfInline |-> validateKeyLength(NormalizeKey(cin.key))]
  /\ UNCHANGED <<cin, errv, clientVars>>

\* what AESEncrypt returned under the caller's key, decrypted by a client
\* that stores validateKeyLength of that key
AESToClient ==
  /\ cin.kind = "plain"
  /\ call.op = "AESEncrypt"
  /\ call.res.err = "none"
  /\ call' = [op |-> "aesDecrypt", of |-> "cross",
              key |-> validateKeyLength(cin.key), in |-> call.res.data,
              res |-> aesDecrypt(validateKeyLength(cin.key), call.res.data)]
  /\ UNCHANGED <<cin, errv, clientVars>>

\* what such a client encrypted, decrypted by AESDecrypt under the caller's
\* key
ClientToAES ==
  /\ cin.kind = "plain"
  /\ call.op = "aesEncrypt"
  /\ call.res.err = "none"
  /\ call' = [op |-> "AESDecrypt", of |-> "cross", key |-> cin.key,
              in |-> call.res.data,
              res |-> AESDecrypt(cin.key, call.res.data)]
  /\ UNCHANGED <<cin, errv, clientVars>>

CryptNext ==
  \/ \E rnd \in Entropy : AESEncryptCall(rnd)
  \/ AESRoundTrip
  \/ \E rnd \in Entropy : aesEncryptCall(rnd)
  \/ aesRoundTrip
  \/ AESDecryptGiven
  \/ aesDecryptGiven
  \/ ValidateKeyCall
  \/ NormalizeKeyCall
  \/ AESToClient
  \/ ClientToAES

CryptSpec == CryptInit /\ [][CryptNext]_vars


(* ======================================================================= *)
(* Requests and responses with and without encryption                      *)
(* ======================================================================= *)

\* A body is a JSON document: "plain" is the bytes raw as they are;
\* "envelope" is an object with the base64 string data, for a request with or
\* without the field timestamp, for a response with encrypted = true. The
\* other shapes are response bodies: "notjson", "badtype" (a field of the
\* wrong type, json.Unmarshal fails), "json" (an object without the flag),
\* "flagfalse" (encrypted = false).
Body(shape, raw, data, timestamp) ==
  [shape |-> shape, raw |-> raw, data |-> data, timestamp |-> timestamp]

NoBody == Body("none", <<>>, <<>>, FALSE)

BodyOk(b) == [err |-> "none", body |-> b]
BodyFail(why) == [err |-> why, body |-> NoBody]

\* c.encryption != nil && c.encryption.Enabled
EncryptionOn(cfg) == cfg.enc = "enabled"

\* the key WithEncryption of encryption.go stores
StoredKey(cfg) == validateKeyLength(cfg.key)

ContentType == [name |-> "Content-Type", value |-> "application/json"]

\* the headers set whether or not encryption is configured
addEncryptionHeadersAlways(cfg) ==
  {[name |-> "X-Encrypted", value |-> "1"],
   [name |-> "X-Response-Encrypt", value |-> "1"]}

addEncryptionHeaders(cfg) ==
  IF EncryptionOn(cfg)
  THEN {[name |-> "X-Encrypted", value |-> "1"],
        [name |-> "X-Response-Encrypt", value |-> "1"]}
  ELSE {}

encryptRequest(cfg, data, rnd) ==
  IF ~EncryptionOn(cfg) THEN BodyOk(Body("plain", data, <<>>, FALSE))
  ELSE LET enc == aesEncrypt(StoredKey(cfg), data, rnd) IN
         IF enc.err # "none" THEN BodyFail("encrypt request")
         ELSE BodyOk(Body("envelope", <<>>, enc.data, TRUE))

\* decryptResponse with a body of another shape reported as an error
decryptResponseStrict(cfg, body) ==
  IF ~EncryptionOn(cfg) THEN BodyOk(body)
  ELSE IF body.shape # "envelope" THEN BodyFail("decrypt response")
  ELSE LET dec == aesDecrypt(StoredKey(cfg), body.data) IN
         IF dec.err = "panic" THEN [err |-> "panic", body |-> NoBody]
         ELSE IF dec.err # "none" THEN BodyFail("decrypt response")
         ELSE BodyOk(Body("plain", dec.data, <<>>, FALSE))

decryptResponse(cfg, body) ==
  IF ~EncryptionOn(cfg) THEN BodyOk(body)
  ELSE IF body.shape \in {"notjson", "badtype"} THEN BodyOk(body)
  ELSE IF body.shape # "envelope" THEN BodyOk(body)
  ELSE LET dec == aesDecrypt(StoredKey(cfg), body.data) IN
         IF dec.err = "panic" THEN [err |-> "panic", body |-> NoBody]
         ELSE IF dec.err # "none" THEN BodyFail("decrypt response")
         ELSE BodyOk(Body("plain", dec.data, <<>>, FALSE))

\* the request of Client.sendRequest and what the call makes of the response:
\* sent is FALSE when the call returns before the request leaves
sendRequestRun(cfg, url, payload, status, resp, rnd) ==
  LET enc == encryptRequest(cfg, payload, rnd)
      dec == decryptResponse(cfg, resp)
      o == [fail |-> IF enc.err # "none" THEN "encrypt"
                     ELSE IF dec.err # "none" THEN "decrypt" ELSE "none",
            status |-> IF enc.err # "none" THEN 0 ELSE status]
  IN [sent |-> enc.err = "none", url |-> url, body |-> enc.body,
      headers |-> IF enc.err = "none"
                  THEN {ContentType} \cup addEncryptionHeaders(cfg) ELSE {},
      panic |-> enc.err = "none" /\ dec.err = "panic",
      err |-> sendRequest(o)]

\* the request of Client.sendEvents that posts by itself
sendEventsRun(cfg, payload, status, rnd) ==
  LET enc == IF EncryptionOn(cfg) THEN AESEncrypt(cfg.key, payload, rnd)
             ELSE Ok(<<>>)
      o == [fail |-> IF enc.err # "none" THEN "encrypt" ELSE "none",
            status |-> IF enc.err # "none" THEN 0 ELSE status]
  IN [sent |-> enc.err = "none", url |-> "/api/events/batch",
      body |-> IF enc.err # "none" THEN NoBody
               ELSE IF EncryptionOn(cfg)
                    THEN Body("envelope", <<>>, enc.data, FALSE)
                    ELSE Body("plain", payload, <<>>, FALSE),
      headers |-> IF enc.err = "none" THEN {ContentType} ELSE {},
      panic |-> FALSE,
      err |-> sendEvents(o)]

\* the request of Client.sendInstallInfo that posts by itself
sendInstallInfoRun(cfg, payload, status) ==
  [sent |-> TRUE, url |-> "/api/installs/push",
   body |-> Body("plain", payload, <<>>, FALSE),
   headers |-> {ContentType},
   panic |-> FALSE,
   err |-> sendInstallInfo([fail |-> "none", status |-> status])]

(* ---- inputs and calls ---- *)

Payloads == {BytesOf(n, 125) : n \in {2, BlockSize, MaxPlainLen}}

ReqKeys == {KeyOf(n, 1) : n \in {10, 16, MaxKeyLen}}

\* the bodies a server can answer with, for a client that holds key
RespBodies(key) ==
  LET good == aesEncrypt(validateKeyLength(key), BytesOf(3, 125), 0).data IN
    {Body("notjson", <<60, 104>>, <<>>, FALSE),
     Body("badtype", <<123, 125>>, <<>>, FALSE),
     Body("json", <<123, 125>>, <<>>, FALSE),
     Body("flagfalse", <<123, 125>>, good, TRUE),
     Body("envelope", <<123, 125>>, good, TRUE),
     Body("envelope", <<123, 125>>, <<1, 2, 3>>, TRUE),
     Body("envelope", <<123, 125>>, B64Encode(<<65>>), TRUE)}

ReqInputs ==
  {[kind |-> "req", enc |-> e, key |-> k, payload |-> p, status |-> st,
    resp |-> b] :
     e \in {"nil", "disabled", "enabled"}, k \in ReqKeys, p \in Payloads,
     st \in {200, 500}, b \in UNION {RespBodies(k2) : k2 \in ReqKeys}}

ReqInit ==
  /\ ClientInit
  /\ errv = <<>>
  /\ call = [op |-> "none"]
  /\ cin \in {i \in ReqInputs : i.resp \in RespBodies(i.key)}

\* sendEvents of the client that posts by itself
SendEventsPosts(rnd) ==
  /\ call' = [op |-> "sendEvents", what |-> "events",
              run |-> sendEventsRun(cin, cin.payload, cin.status, rnd)]
  /\ UNCHANGED <<cin, errv, clientVars>>

\* sendEvents of the client that posts through sendRequest
SendEventsViaRequestPosts(rnd) ==
  /\ call' = [op |-> "sendEventsViaRequest", what |-> "events",
              run |-> sendRequestRun(cin, "/api/events/batch", cin.payload,
                                     cin.status, cin.resp, rnd)]
  /\ UNCHANGED <<cin, errv, clientVars>>

\* sendInstallInfo of the client that posts by itself
SendInstallInfoPosts ==
  /\ call' = [op |-> "sendInstallInfo", what |-> "install",
              run |-> sendInstallInfoRun(cin, cin.payload, cin.status)]
  /\ UNCHANGED <<cin, errv, clientVars>>

\* sendInstallInfo of the client that posts through sendRequest
SendInstallInfoViaRequestPosts(rnd) ==
  /\ call' = [op |-> "sendInstallInfoViaRequest", what |-> "install",
              run |-> sendRequestRun(cin, "/api/installs/push", cin.payload,
                                     cin.status, cin.resp, rnd)]
  /\ UNCHANGED <<cin, errv, clientVars>>

DecryptResponseCall ==
  /\ call' = [op |-> "decryptResponse", what |-> "response",
              res |-> decryptResponse(cin, cin.resp)]
  /\ UNCHANGED <<cin, errv, clientVars>>

ReqNext ==
  \/ \E rnd \in Entropy : SendEventsPosts(rnd)
  \/ \E rnd \in Entropy : SendEventsViaRequestPosts(rnd)
  \/ SendInstallInfoPosts
  \/ \E rnd \in Entropy : SendInstallInfoViaRequestPosts(rnd)
  \/ DecryptResponseCall

ReqSpec == ReqInit /\ [][ReqNext]_vars


(* ======================================================================= *)
(* Properties                                                              *)
(* ======================================================================= *)

\* the events handed to the transport so far
SentIds == UNION {Range(sent[i].events) : i \in 1..Len(sent)}

\* the number of batches that contain event e
Count(e) == Cardinality({i \in 1..Len(sent) : e \in Range(sent[i].events)})

\* the events accepted before the n-th acceptance, inclusive
AcceptedUpTo(n) == {accepted[k] : k \in 1..n}

\* batches carry events in arrival order, within a batch and from one batch
\* to the next
InArrivalOrder ==
  /\ \A i \in 1..Len(sent) : \A k, l \in 1..Len(sent[i].events) :
       k < l => sent[i].events[k] < sent[i].events[l]
  /\ \A i, j \in 1..Len(sent) : i < j =>
       \A a \in Range(sent[i].events), b \in Range(sent[j].events) : a < b

\* a step of Track, TrackEvent or the TrackBatch loop: an event was offered
OfferStep == nextId' = nextId + 1

\* C1: every accepted event is contained in exactly one batch handed to the
\* transport (never in two, and in one once Close has returned), and batches
\* carry the events in their enqueue order.
C1_ExactlyOneBatchInOrder ==
  /\ \A e \in Range(accepted) : Count(e) <= 1
  /\ cpc = "returned" => \A e \in AcceptedUpTo(closeSnap) : Count(e) = 1
  /\ InArrivalOrder

\* C2: when Close has returned, every event that was accepted before Close
\* was invoked has been handed to the transport in some batch.
C2_CloseDrainsAll ==
  cpc = "returned" => AcceptedUpTo(closeSnap) \subseteq SentIds

\* C2 witness: Close has returned after more than batch_size accepted events,
\* which left in more than one batch.
C2_Witness ==
  /\ cpc = "returned"
  /\ closeSnap > BatchSize
  /\ Len(sent) >= 2
  /\ AcceptedUpTo(closeSnap) \subseteq SentIds

\* C3: a second call of Close never crashes the process.
C3_SecondCloseIsHarmless == ~panicked

\* C4: once processEvents has returned (the Dispatcher is STOPPED), no offered
\* event is accepted into the queue any more.
C4_NoAcceptAfterStopped ==
  [][DState = "STOPPED" => accepted' = accepted]_vars

\* C5: when Flush returns on an empty poll, every event accepted before
\* Flush was called has been handed to the transport.
C5_FlushHandsOffBacklog ==
  fpc = "retEmpty" => AcceptedUpTo(flushSnap) \subseteq SentIds

\* C6: Track and TrackEvent never block: whatever the queue level and the
\* position of processEvents, a call can complete in one step, and an event
\* offered to a full queue is discarded.
C6_TrackNeverBlocks ==
  /\ [](~panicked /\ nextId <= MaxEvents => ENABLED Track /\ ENABLED TrackEvent)
  /\ [][Len(events) = BufferSize /\ OfferStep =>
          /\ nextId \in dropped'
          /\ nextId \notin Range(events')]_vars

\* C6 witness: an event was discarded at a full queue after processEvents
\* had returned.
C6_Witness ==
  /\ DState = "STOPPED"
  /\ Len(events) = BufferSize
  /\ dropped # {}

\* C7: an offer made while the queue holds capacity-many events leaves the
\* queue contents and their order unchanged; only the offered event is lost.
C7_DropNewest ==
  [][Len(events) = BufferSize /\ OfferStep =>
       /\ events' = events
       /\ accepted' = accepted
       /\ dropped' = dropped \cup {nextId}]_vars

\* C7 witness: every event resident in the full queue is older than an event
\* that was dropped.
C7_Witness ==
  /\ Len(events) = BufferSize
  /\ \E d \in dropped : \A k \in 1..Len(events) : events[k] < d

\* C8: a batch whose transport call failed is never handed to the transport
\* again: none of its events occurs in a later batch.
C8_FailedBatchNeverResent ==
  \A i, j \in 1..Len(sent) :
    (i < j /\ sent[i].result = "err") =>
       Range(sent[i].events) \cap Range(sent[j].events) = {}

\* C9: when a transport call of the shutdown drain failed, Close returns a
\* non-nil error.
C9_ClosePropagatesError ==
  (cpc = "returned" /\ \E i \in 1..Len(sent) :
      sent[i].state = "DRAINING" /\ sent[i].result = "err")
    => closeRet # "nil"

\* C10: in RUNNING the accumulator is flushed as soon as it holds batch_size
\* events: the batch handed over is exactly those batch_size events, nothing
\* is received while the call is in flight, and the accumulator is empty when
\* the goroutine is back at its select; batch_size accepted events with no
\* timer flush and no stop signal make exactly one batch.
C10_SizeTrigger ==
  /\ [](/\ dpc = "select" => Len(batch) < BatchSize
        /\ dpc = "sizeSend" =>
             /\ Len(batch) = BatchSize
             /\ sent[Len(sent)].events = batch
        /\ \A i \in 1..Len(sent) :
             sent[i].site = "size" => Len(sent[i].events) = BatchSize
        /\ (/\ ~quit
            /\ Len(accepted) = BatchSize
            /\ events = <<>>
            /\ \A i \in 1..Len(sent) : sent[i].site = "size")
           => (Len(sent) = 1 /\ sent[1].events = accepted))
  /\ [][dpc = "sizeSend" =>
          /\ Len(events') >= Len(events)
          /\ dpc' = "select" => batch' = <<>>]_vars

\* C10 witness: a size-triggered batch of batch_size events has been sent and
\* the accumulator is empty again.
C10_Witness ==
  /\ dpc = "select"
  /\ batch = <<>>
  /\ Len(sent) = 1
  /\ sent[1].site = "size"
  /\ sent[1].result # "pending"
  /\ Len(sent[1].events) = BatchSize

\* the sendEvents call processEvents made last
LastSent == sent[Len(sent)]

\* a step in which processEvents takes a tick out of ticker.C
TickTaken == dpc = "select" /\ tickPending /\ ~tickPending'

\* C11: in RUNNING with fewer than batch_size events accepted and no stop
\* signal, a batch is handed to the transport only by a step that takes a tick
\* of the flush-interval timer; a tick taken with a non-empty accumulator
\* makes exactly one batch of all accumulated events and the accumulator is
\* empty after that flush; a tick taken with an empty accumulator sends
\* nothing.
C11_TimeTrigger ==
  /\ [](dpc = "tickSend" =>
          /\ batch # <<>>
          /\ LastSent.site = "tick"
          /\ LastSent.events = batch)
  /\ [][(~quit /\ Len(accepted) < BatchSize /\ sent' # sent /\ Len(sent') > Len(sent))
          => TickTaken]_vars
  /\ [][TickTaken =>
          IF batch = <<>>
          THEN sent' = sent /\ dpc' = "select"
          ELSE /\ Len(sent') = Len(sent) + 1
               /\ sent'[Len(sent')].events = batch
               /\ dpc' = "tickSend"]_vars
  /\ [][(dpc = "tickSend" /\ dpc' # "tickSend")
          => (dpc' = "select" /\ batch' = <<>>)]_vars

\* C11 witness: fewer than batch_size events were accepted, no stop signal
\* was given, and the one batch sent is a time-triggered batch of all of them.
C11_Witness ==
  /\ ~quit
  /\ accepted # <<>>
  /\ Len(accepted) < BatchSize
  /\ dpc = "select"
  /\ batch = <<>>
  /\ Len(sent) = 1
  /\ sent[1].site = "tick"
  /\ sent[1].events = accepted
  /\ sent[1].result # "pending"

\* a step in which a size- or time-triggered sendEvents call returns
RunningFlushDone == dpc \in {"sizeSend", "tickSend"} /\ dpc' = "select"

InSend == dpc \in {"sizeSend", "tickSend", "quitSend", "drainSend", "finalSend"}

\* C13: batches of processEvents are transported strictly one at a time: at
\* most one of its sendEvents calls is in flight, it is the last one made,
\* and processEvents is inside that call, so the call for the next batch
\* cannot start before it has returned.
C13_OneCallInFlight ==
  /\ \A i \in 1..Len(sent) : sent[i].result = "pending" => i = Len(sent)
  /\ InSend <=> (sent # <<>> /\ LastSent.result = "pending")

\* C13 witness: a second batch is in flight after the first call returned.
C13_Witness ==
  /\ Len(sent) >= 2
  /\ sent[1].result # "pending"
  /\ LastSent.result = "pending"
  /\ InSend

\* C14: once processEvents has returned (the Dispatcher is STOPPED), no
\* further batch is handed to the transport, neither by processEvents nor by
\* a TrackSync caller.
C14_NoSendAfterStopped ==
  [][DState = "STOPPED" => (sent' = sent /\ Len(syncSent') = Len(syncSent))]_vars

\* C15: Flush always terminates: a call that is polling returns (or the
\* process has ended by a panic); the timeout case is enabled whatever
\* processEvents is doing and whatever the queue holds, and a call returns
\* only on a poll that sees the queue empty or on the timeout.
C15_FlushTerminates ==
  /\ (fpc = "polling") ~> (fpc # "polling" \/ panicked)
  /\ []((fpc = "polling" /\ ~panicked) => ENABLED FlushTimeout)
  /\ [][(fpc = "polling" /\ fpc' # "polling") =>
          \/ (Len(events) = 0 /\ fpc' = "retEmpty")
          \/ fpc' = "idle"]_vars

\* C15 witness: Flush is polling while processEvents has returned and the
\* queue is not empty.
C15_Witness ==
  /\ fpc = "polling"
  /\ DState = "STOPPED"
  /\ events # <<>>
  /\ ~panicked

(* ----------------------------------------------------------------------- *)
(* Error classification                                                    *)
(* ----------------------------------------------------------------------- *)

SendOps == {"sendEvents", "sendInstallInfo", "sendRequest", "sendEventsViaRequest"}

IsNetworkError(e) == e # <<>> /\ e[1].kind = "NetworkError"

HasKind(e, kinds) == \E i \in DOMAIN e : e[i].kind \in kinds

HasSentinel(e, names) ==
  \E i \in DOMAIN e : e[i].kind = "sentinel" /\ e[i].info \in names

\* C16: isRetryableError(err) is true if and only if the cause chain of err
\* contains a NetworkError marked Retryable or contains one of the sentinels
\* ErrNetworkTimeout / ErrNetworkFailure, at any wrapping depth.
C16_RetryableIffMarkedOrSentinel ==
  call.op = "isRetryableError" =>
    call.out =
      (\/ \E i \in DOMAIN call.in :
             call.in[i].kind = "NetworkError" /\ call.in[i].retryable
       \/ HasSentinel(call.in, {"ErrNetworkTimeout", "ErrNetworkFailure"}))

\* C17: on every send path, a send that receives a 5xx status returns a
\* network error for which isRetryableError is true, and a send that receives
\* a 4xx status returns a network error for which isRetryableError is false.
C17_StatusClassified ==
  (call.op \in SendOps /\ call.in.fail = "none") =>
    /\ call.in.status >= 500 =>
         IsNetworkError(call.out) /\ isRetryableError(call.out)
    /\ (call.in.status >= 400 /\ call.in.status < 500) =>
         IsNetworkError(call.out) /\ ~isRetryableError(call.out)

\* C18: a send that receives any 2xx status returns success (nil).
C18_Any2xxSucceeds ==
  (call.op \in SendOps /\ call.in.fail = "none"
     /\ call.in.status >= 200 /\ call.in.status < 300) =>
    call.out = NilError

\* C19: a transport-level failure of a send is returned as an error for which
\* isRetryableError is true; a marshal failure or an encryption failure is
\* returned as an error for which isRetryableError is false.
C19_FailureClassified ==
  call.op \in SendOps =>
    /\ call.in.fail = "net" =>
         call.out # NilError /\ isRetryableError(call.out)
    /\ call.in.fail \in {"marshal", "encrypt"} =>
         call.out # NilError /\ ~isRetryableError(call.out)

\* C20: wrapError is idempotent: an error whose chain already contains a
\* ClientError or a NetworkError is returned unchanged, wrapping the result of
\* wrapError again (with any operation name) changes nothing, and
\* wrapError(op, nil) is nil.
C20_WrapErrorIdempotent ==
  /\ [](call.op = "wrapError" =>
          /\ call.in = NilError => call.out = NilError
          /\ HasKind(call.in, {"ClientError", "NetworkError"}) =>
               call.out = call.in
          /\ \A op2 \in Ops : wrapError(op2, call.out) = call.out)
  /\ [][(call.op = "wrapError" /\ call'.op = "wrapError") =>
          call'.out = call.out]_vars

\* wrapError with another operation name was applied to an error that a
\* ClientError already wraps, and returned it
C20_Witness ==
  /\ call.op = "wrapError"
  /\ call.in # NilError
  /\ call.in[1].kind = "ClientError"
  /\ call.in[1].info # call.arg
  /\ call.out = call.in

(* ----------------------------------------------------------------------- *)
(* Batch sizes                                                             *)
(* ----------------------------------------------------------------------- *)

\* C30: every batch processEvents hands to the transport, in RUNNING and in
\* DRAINING, holds at least 1 and at most BatchSize events; whenever
\* processEvents is at its select in RUNNING the accumulator holds fewer than
\* BatchSize events.
C30_BatchSizeBounds ==
  /\ \A i \in DOMAIN sent :
       Len(sent[i].events) >= 1 /\ Len(sent[i].events) <= BatchSize
  /\ (DState = "RUNNING" /\ dpc = "select") => Len(batch) < BatchSize

\* a batch was sent in RUNNING and a full one by the drain loop in DRAINING
C30_Witness ==
  /\ \E i \in DOMAIN sent : sent[i].state = "RUNNING"
  /\ \E j \in DOMAIN sent :
       sent[j].site = "drain" /\ Len(sent[j].events) = BatchSize

(* ----------------------------------------------------------------------- *)
(* Encryption functions                                                    *)
(* ----------------------------------------------------------------------- *)

\* C25: round trip: for every plaintext (the empty one and whole-block
\* lengths included) and every key of any length, decrypting what encrypt
\* returned with the same key returns exactly the plaintext and no error.
C25_RoundTrip ==
  (call.op \in {"AESDecrypt", "aesDecrypt"} /\ call.of = "roundtrip") =>
    call.res.err = "none" /\ call.res.data = cin.data

\* a plaintext of exactly one block went through AESEncrypt and AESDecrypt
\* under a key that had to be adjusted
C25_Witness ==
  /\ call.op = "AESDecrypt"
  /\ call.of = "roundtrip"
  /\ Len(cin.data) = BlockSize
  /\ Len(cin.key) \notin {16, 24, 32}
  /\ call.res.data = cin.data

\* the key the claim describes for a key of n bytes: its first bytes up to
\* the largest valid size not above n, or the key followed by zeros up to 16
ExpectedKey(key) ==
  LET n == Len(key)
      size == IF n < 24 THEN 16 ELSE IF n < 32 THEN 24 ELSE 32
  IN [i \in 1..size |-> IF i <= n THEN key[i] ELSE 0]

C27_RaggedCiphertextIsError ==
  (call.op \in {"AESDecrypt", "aesDecrypt"} /\ call.of = "given"
     /\ cin.why = "ragged") =>
    call.res.err \notin {"none", "panic"}

\* C28: decrypt of a whole-block buffer whose final padding byte is invalid
\* (0, above the block size, above the buffer length, or not repeated in the
\* pad positions) returns an error and no data.
C28_BadPaddingIsError ==
  (call.op \in {"AESDecrypt", "aesDecrypt"} /\ call.of = "given"
     /\ cin.why = "badpad") =>
    call.res.err \notin {"none", "panic"}

\* C29: encryption is deterministic: the IV is the first BlockSize bytes of
\* the adjusted key, and the ciphertext is the same whatever the environment
\* supplies at the call and in any two encryptions of the same key and
\* plaintext.
C29_Deterministic ==
  /\ [](call.op = "AESEncrypt" =>
          \A rnd \in Entropy :
            /\ IV(NormalizeKey(cin.key), rnd)
                 = SubSeq(NormalizeKey(cin.key), 1, BlockSize)
            /\ AESEncrypt(cin.key, cin.data, rnd) = call.res)
  /\ [](call.op = "aesEncrypt" =>
          \A rnd \in Entropy : aesEncrypt(call.key, cin.data, rnd) = call.res)
  /\ [][(call.op \in {"AESEncrypt", "aesEncrypt"} /\ call'.op = call.op) =>
          call'.res = call.res]_vars

\* a plaintext of more than one block was encrypted
C29_Witness ==
  /\ call.op = "AESEncrypt"
  /\ call.res.err = "none"
  /\ Len(cin.data) > BlockSize

(* ----------------------------------------------------------------------- *)
(* Requests and responses                                                  *)
(* ----------------------------------------------------------------------- *)

HasHeader(hs, name) == \E h \in hs : h.name = name

\* b is the envelope of the payload of the request in cin
IsEnvelopeOf(b) ==
  /\ b.shape = "envelope"
  /\ AESDecrypt(cin.key, b.data) = Ok(cin.payload)

\* C21: with encryption configured, every event-batch request that leaves
\* has an envelope body (base64 ciphertext of the JSON payload, and a
\* timestamp) and carries the header marking the body as encrypted and the
\* header asking for an encrypted response; no batch leaves in plaintext.
C21_EncryptedBatchRequest ==
  (call.op \in {"sendEvents", "sendEventsViaRequest"}
     /\ cin.enc = "enabled" /\ call.run.sent) =>
    /\ IsEnvelopeOf(call.run.body)
    /\ call.run.body.timestamp
    /\ HasHeader(call.run.headers, "X-Encrypted")
    /\ HasHeader(call.run.headers, "X-Response-Encrypt")

\* C22: with encryption configured, the installation report posted to
\* /api/installs/push is the envelope of the install record, never the
\* plaintext record.
C22_EncryptedInstallReport ==
  (call.op \in {"sendInstallInfo", "sendInstallInfoViaRequest"}
     /\ cin.enc = "enabled" /\ call.run.sent) =>
    /\ call.run.url = "/api/installs/push"
    /\ IsEnvelopeOf(call.run.body)

\* C23: without encryption configured, the request body is byte for byte the
\* JSON payload, no encryption header is set, and the response body is passed
\* through unmodified (encryptRequest and decryptResponse are the identity).
C23_PlainWhenNotConfigured ==
  (cin.kind = "req" /\ cin.enc # "enabled") =>
    /\ \A rnd \in Entropy :
         encryptRequest(cin, cin.payload, rnd)
           = BodyOk(Body("plain", cin.payload, <<>>, FALSE))
    /\ (call.op # "none" /\ call.what \in {"events", "install"}) =>
         /\ call.run.sent
         /\ call.run.body = Body("plain", cin.payload, <<>>, FALSE)
         /\ ~HasHeader(call.run.headers, "X-Encrypted")
         /\ ~HasHeader(call.run.headers, "X-Response-Encrypt")
         /\ ~call.run.panic
    /\ call.op = "decryptResponse" => call.res = BodyOk(cin.resp)

\* a client whose encryption config is present but not enabled posted through
\* sendRequest and was answered with an envelope
C23_Witness ==
  /\ cin.kind = "req"
  /\ cin.enc = "disabled"
  /\ call.op = "sendEventsViaRequest"
  /\ cin.resp.shape = "envelope"
  /\ call.run.headers = {ContentType}

\* C24: with encryption configured, a response body that does not parse as
\* an encrypted envelope (not JSON, or JSON without the encrypted flag set) is
\* taken as plaintext and does not turn an otherwise successful send into an
\* error; only a body that parses as an encrypted envelope is decrypted.
C24_NonEnvelopeIsPlaintext ==
  (cin.kind = "req" /\ cin.enc = "enabled") =>
    /\ call.op = "decryptResponse" =>
         /\ cin.resp.shape # "envelope" => call.res = BodyOk(cin.resp)
         /\ call.res # BodyOk(cin.resp) => cin.resp.shape = "envelope"
    /\ (call.op \in {"sendEventsViaRequest", "sendInstallInfoViaRequest"}
          /\ call.run.sent /\ cin.status = 200
          /\ cin.resp.shape # "envelope") =>
         call.run.err = NilError /\ ~call.run.panic

\* an encrypting client was answered 200 with JSON whose flag is false
C24_Witness ==
  /\ cin.kind = "req"
  /\ cin.enc = "enabled"
  /\ call.op = "sendEventsViaRequest"
  /\ cin.status = 200
  /\ cin.resp.shape = "flagfalse"
  /\ call.run.err = NilError

(* ----------------------------------------------------------------------- *)
(* Life cycle of processEvents                                             *)
(* ----------------------------------------------------------------------- *)

\* C31: the state of processEvents only moves RUNNING -> DRAINING ->
\* STOPPED: it leaves RUNNING only with c.quit closed, never returns to an
\* earlier state, and enters STOPPED only after the queue was seen empty and
\* with everything in the accumulator handed to the transport.
C31_LifeCycle ==
  [][/\ (DState = "RUNNING" /\ DState' # "RUNNING") =>
          quit /\ DState' = "DRAINING"
     /\ DState = "DRAINING" => DState' \in {"DRAINING", "STOPPED"}
     /\ DState = "STOPPED" => DState' = "STOPPED"
     /\ (dpc # "finalSend" /\ dpc' = "finalSend") =>
          dpc = "drainLoop" /\ events = <<>>
     /\ (DState # "STOPPED" /\ DState' = "STOPPED") =>
          /\ DState = "DRAINING"
          /\ dpc = "finalSend" \/ (dpc = "drainLoop" /\ events = <<>>)
          /\ Range(batch') \subseteq SentIds']_vars

\* processEvents has returned after a last send of what the drain left
C31_Witness ==
  /\ DState = "STOPPED"
  /\ \E i \in DOMAIN sent : sent[i].site = "final"

\* C32: once Close has been called, processEvents reaches STOPPED and Close
\* returns, given that every sendEvents call returns, also while producers go
\* on calling Track during the drain.
C32_CloseTerminates ==
  (cpc = "waiting") ~> (panicked \/ (cpc = "returned" /\ DState = "STOPPED"))

\* C33: while processEvents is RUNNING, the ticker keeps firing and every
\* sendEvents call returns, each event the queue accepted is handed to the
\* transport in the end, with no call of Flush or Close needed and however
\* few events are queued.
C33_AcceptedEventuallySent ==
  \A e \in 1..MaxEvents :
    (e \in Range(accepted)) ~>
      (e \in SentIds \/ DState # "RUNNING" \/ panicked)

\* a single event, fewer than BatchSize, was sent by the ticker with Close
\* and Flush never called
C33_Witness ==
  /\ Len(accepted) = 1
  /\ accepted[1] \in SentIds
  /\ DState = "RUNNING"
  /\ \E i \in DOMAIN sent : sent[i].site = "tick"

(* ----------------------------------------------------------------------- *)
(* TrackSync, TrackBatch                                                   *)
(* ----------------------------------------------------------------------- *)

\* C34: TrackSync bypasses the queue: it hands a batch of its one event to
\* the transport on the caller's goroutine and returns the error of that call;
\* it leaves c.events and the accumulator of processEvents as they are, and
\* its event is in no batch of processEvents.
C34_TrackSyncBypassesQueue ==
  /\ [](\A i \in DOMAIN syncSent :
          /\ syncSent[i].id \notin
               SentIds \cup Range(events) \cup Range(batch)
                 \cup Range(accepted) \cup dropped
          /\ syncSent[i].result # "pending" =>
               syncSent[i].ret = syncSent[i].result)
  /\ [][syncVars' # syncVars =>
          UNCHANGED <<events, batch, sent, accepted, dropped, dpc>>]_vars

\* a TrackSync call returned the error of its send while the queue and the
\* accumulator held events
C34_Witness ==
  /\ \E i \in DOMAIN syncSent :
       syncSent[i].result = "err" /\ syncSent[i].ret = "err"
  /\ spc = "idle"
  /\ events # <<>>
  /\ batch # <<>>

\* C35: TrackBatch treats every event of its argument on its own: each
\* iteration can run whatever the queue level, consumes exactly one event,
\* queues it when there is room and discards it otherwise, and goes on to the
\* next event after a discard; every event it queues carries the clock
\* reading of its enqueue, whatever Timestamp the caller supplied.
C35_TrackBatchPerEvent ==
  /\ [](call.op = "TrackBatch" /\ call.rest # <<>> /\ ~panicked =>
          ENABLED TrackBatchIter)
  /\ [](call.op = "TrackBatch" =>
          \A e \in Range(accepted) : e.ts = e.at)
  /\ [][(call.op = "TrackBatch" /\ call'.rest # call.rest) =>
          /\ call'.rest = Tail(call.rest)
          /\ IF Len(events) < BufferSize
             THEN /\ Len(accepted') = Len(accepted) + 1
                  /\ accepted'[Len(accepted')].id = nextId
                  /\ events' = Append(events, accepted'[Len(accepted')])
                  /\ dropped' = dropped
             ELSE /\ events' = events
                  /\ accepted' = accepted
                  /\ \E e \in dropped' \ dropped : e.id = nextId]_vars

\* a TrackBatch call returned after the queue refused one of its events and
\* took a later one, stamped with a later clock reading than the caller's
C35_Witness ==
  /\ call.op = "TrackBatch"
  /\ call.rest = <<>>
  /\ \E d \in dropped : \E i \in DOMAIN accepted :
       /\ d.id < accepted[i].id
       /\ accepted[i].ts > 1
       /\ accepted[i].ts # accepted[i].given
       /\ accepted[i].given # 0

\* C36: every event of a batch handed to the transport was tracked under the
\* user id the batch's payload carries, whatever SetUserID calls came between
\* the Track call and the send.
C36_BatchCarriesTrackedUser ==
  [][(cin.kind = "user" /\ Len(sent') = Len(sent) + 1) =>
       \A e \in Range(sent'[Len(sent')].events) :
         e.under = PayloadUserID]_vars

(* ----------------------------------------------------------------------- *)
(* The two key adjustments                                                 *)
(* ----------------------------------------------------------------------- *)

====
